---- MODULE Spec2Model ----
(***************************************************************************)
(* A model of SparkswapClient (src/sparkswap.js): the streaming and the    *)
(* blocking order watch, cancelAll and maxOrderSize.                       *)
(*                                                                         *)
(* Decimal strings and big.js values are records [ip, fd]: the integer     *)
(* part and the sequence of fraction digits ("0.3" is [ip |-> 0,           *)
(* fd |-> <<3>>]).  A string produced by toFixed(8) is the integer count   *)
(* of 10^-8 units it denotes ("0.95000000" is 95000000).                   *)
(***************************************************************************)
EXTENDS Integers, Sequences, FiniteSets, TLC

VARIABLES
    mode,          \* which watch was started: "idle", "streaming", "blocking"
    pc,            \* the watch's position: "idle", "polling", "waiting", "ended"
    orderId,       \* the id the watch was started with
    limitPrice,    \* the remote order's limit price
    fillAmount,    \* the streaming watch's baseline (parameter fillAmount)
    events,        \* what the emitter has emitted, in order
    polls,         \* getBlockOrder requests issued by the watch
    pollLog,       \* the poll results delivered to the watch, in order
    outcome,       \* the promise of watchOrder: pending, resolved or rejected
    stopRequested, \* the owner of the watch has asked it to stop
    caPc,          \* cancelAll's position: "idle", "listing", "cancelling", "returned"
    blockOrders,   \* the orders getBlockOrders answered with
    requests,      \* the cancelBlockOrder requests issued, in order
    caOutcome,     \* the promise cancelAll returned
    mosPc,         \* maxOrderSize's position: "idle", "fetching", "returned"
    mosArgs,       \* the side and price maxOrderSize was called with
    mosQuote,      \* the capacities getTradingCapacities answered with
    capRequests,   \* getTradingCapacities requests issued
    mosOutcome,    \* the promise maxOrderSize returned
    placePc,       \* place's position: "idle", "creating", "returned"
    placeArgs,     \* the arguments place was called with
    placeOutcome,  \* the promise place returned
    ctorPc,        \* the constructor's position: "new", "constructed", "failed"
    config,        \* the configuration the constructor read
    client,        \* the fields the constructor has set
    rpcs,          \* the remote calls issued so far, each with its deadline
    remote         \* the status of the watched order at the broker

watchVars == <<mode, pc, orderId, limitPrice, fillAmount, events, polls,
               pollLog, outcome, stopRequested>>

cancelVars == <<caPc, blockOrders, requests, caOutcome>>

maxVars == <<mosPc, mosArgs, mosQuote, capRequests, mosOutcome>>

placeVars == <<placePc, placeArgs, placeOutcome>>

ctorVars == <<ctorPc, config, client>>

vars == <<watchVars, cancelVars, maxVars, placeVars, ctorVars, rpcs, remote>>

----------------------------------------------------------------------------
(* Bounds *)

MaxPolls == 4

MaxOrders == 3

MaxBase == 2

MaxCounter == 2

MaxPrice == 3

----------------------------------------------------------------------------
(* big.js arithmetic *)

FIXED_DP == 8

\* Big.DP, the decimal places big.js keeps in a division
DIV_DP == 20

RECURSIVE Pow10(_)
Pow10(n) == IF n = 0 THEN 1 ELSE 10 * Pow10(n - 1)

Max(a, b) == IF a > b THEN a ELSE b

\* the digit of fd at position i, zero beyond its end
DigitAt(fd, i) == IF i <= Len(fd) THEN fd[i] ELSE 0

\* the first n digits of fd (zero padded) as an integer
RECURSIVE FracInt(_, _)
FracInt(fd, n) == IF n = 0 THEN 0 ELSE 10 * FracInt(fd, n - 1) + DigitAt(fd, n)

\* the n digits of v, most significant first
RECURSIVE Digits(_, _)
Digits(v, n) == IF n = 0 THEN <<>> ELSE Append(Digits(v \div 10, n - 1), v % 10)

Big(ip, fd) == [ip |-> ip, fd |-> fd]

BigZero == Big(0, <<>>)

\* a.ip.fd as a count of 10^-n units, n >= Len(a.fd)
Scaled(a, n) == a.ip * Pow10(n) + FracInt(a.fd, n)

RECURSIVE FracGt(_, _, _)
FracGt(f, g, i) ==
    IF i > Len(f) /\ i > Len(g) THEN FALSE
    ELSE IF DigitAt(f, i) # DigitAt(g, i) THEN DigitAt(f, i) > DigitAt(g, i)
    ELSE FracGt(f, g, i + 1)

BigGt(a, b) == a.ip > b.ip \/ (a.ip = b.ip /\ FracGt(a.fd, b.fd, 1))

\* a - b for a >= b
BigMinus(a, b) ==
    LET n == Max(Len(a.fd), Len(b.fd))
        d == Scaled(a, n) - Scaled(b, n)
    IN  Big(d \div Pow10(n), Digits(d % Pow10(n), n))

\* toFixed(8): rounded half up (big.js RM = 1) to 8 decimal places
BigToFixed(a) ==
    Scaled(a, FIXED_DP) + (IF DigitAt(a.fd, FIXED_DP + 1) >= 5 THEN 1 ELSE 0)

\* the n digits after r / d, r < d
RECURSIVE DivDigits(_, _, _)
DivDigits(r, d, n) ==
    IF n = 0 THEN <<>>
    ELSE <<(r * 10) \div d>> \o DivDigits((r * 10) % d, d, n - 1)

\* fd plus one unit in its last place
RECURSIVE IncDigits(_)
IncDigits(fd) ==
    IF fd = <<>> THEN [fd |-> <<>>, carry |-> 1]
    ELSE IF fd[Len(fd)] < 9
    THEN [fd |-> [fd EXCEPT ![Len(fd)] = @ + 1], carry |-> 0]
    ELSE LET r == IncDigits(SubSeq(fd, 1, Len(fd) - 1))
         IN  [fd |-> Append(r.fd, 0), carry |-> r.carry]

\* a rounded half up to dp decimal places
BigRound(a, dp) ==
    LET kept == [i \in 1..dp |-> DigitAt(a.fd, i)]
        up   == IncDigits(kept)
    IN  IF DigitAt(a.fd, dp + 1) >= 5
        THEN Big(a.ip + up.carry, up.fd)
        ELSE Big(a.ip, kept)

\* a.div(p), p > 0: the quotient rounded half up to Big.DP decimal places
BigDiv(a, p) ==
    LET n == Max(Len(a.fd), Len(p.fd))
        N == Scaled(a, n)
        D == Scaled(p, n)
    IN  BigRound(Big(N \div D, DivDigits(N % D, D, DIV_DP + 1)), DIV_DP)

\* fd times m
RECURSIVE MulDigits(_, _)
MulDigits(fd, m) ==
    IF fd = <<>> THEN [fd |-> <<>>, carry |-> 0]
    ELSE LET r == MulDigits(Tail(fd), m)
             v == Head(fd) * m + r.carry
         IN  [fd |-> <<v % 10>> \o r.fd, carry |-> v \div 10]

\* a.times(1 - 0.05): exactly a * 95 / 100
BigTimesBuffer(a) ==
    LET f == MulDigits(a.fd, 95)
        i == a.ip * 95 + f.carry
    IN  Big(i \div 100, Digits(i % 100, 2) \o f.fd)

----------------------------------------------------------------------------
(* The remote order service *)

OrderIds == {"A1", "B2"}

Prices == {Big(10000, <<>>), Big(0, <<5>>)}

TerminalStatuses == {"COMPLETE", "CANCELLED", "FAILED"}

Statuses == {"ACTIVE", "PENDING"} \cup TerminalStatuses

\* order.fillAmount: absent (<<>>) or a decimal string; amounts are
\* quantities of the asset's smallest unit, 10^-8, so they have at most 8
\* decimals
FillAmounts == {<<>>, <<Big(0, <<>>)>>, <<Big(0, <<3>>)>>, <<Big(0, <<7>>)>>}

RemoteErrors == {"UNAVAILABLE", "DEADLINE_EXCEEDED"}

NoError == "none"

\* the (err, order) pairs a getBlockOrder callback can be called with
PollResults ==
    {[err |-> e, status |-> "", fillAmount |-> <<>>] : e \in RemoteErrors}
    \cup
    {[err |-> NoError, status |-> s, fillAmount |-> f] :
        s \in Statuses, f \in FillAmounts}

----------------------------------------------------------------------------
(* EventEmitter notifications *)

FillEvent(amount, price) ==
    [type |-> "fill", amount |-> amount, price |-> <<price>>, arg |-> <<>>]

DoneEvent(status) ==
    [type |-> "done", amount |-> 0, price |-> <<>>, arg |-> <<status>>]

ErrorEvent(err) ==
    [type |-> "error", amount |-> 0, price |-> <<>>, arg |-> err]

\* new Error(`Order ${id} is in a FAILED state.`)
OrderFailedError(id) == <<"OrderFailed", id>>

RemoteError(e) == <<"Remote", e>>

\* new Date().setSeconds(new Date().getSeconds() + 5)
DEADLINE_SECONDS == 5

\* a remote call and the deadline option passed with it (<<>>: none)
Rpc(method, deadline) == [method |-> method, deadline |-> deadline]

Pending == [state |-> "pending", value |-> <<>>]

Resolved(v) == [state |-> "resolved", value |-> <<v>>]

Rejected(e) == [state |-> "rejected", value |-> e]

----------------------------------------------------------------------------
(* The constructor *)

\* a host:port string as its two parts; port "" when the string has no colon
Address(host, port) == [host |-> host, port |-> port]

DEFAULT_RPC_PORT == "27492"

\* the configuration files: a field is absent (<<>>) or set
Configs ==
    [rpcAddress  : {<<>>, <<Address("broker", "")>>, <<Address("broker", "9000")>>},
     disableAuth : {<<>>, <<TRUE>>, <<FALSE>>},
     rpcCertPath : {<<>>, <<"/etc/broker.cert">>},
     rpcUser     : {<<>>, <<"">>, <<"alice">>},
     rpcPass     : {<<>>, <<"">>, <<"secret">>}]

\* field || default, for a string field
StrOr(field, default) ==
    IF field = <<>> THEN default
    ELSE IF field[1] = "" THEN default
    ELSE field[1]

\* field || false
BoolOr(field) == IF field = <<>> THEN FALSE ELSE field[1]

\* config.rpcAddress || 'localhost:27492', then the default port (lines 24-35)
AddressOf(field) ==
    LET address == IF field = <<>> THEN Address("localhost", "27492") ELSE field[1]
    IN  IF address.port = "" THEN Address(address.host, DEFAULT_RPC_PORT)
        ELSE address

\* the constructor (lines 21-53) on configuration cfg; certReadable: whether
\* readFileSync finds the certificate
Construct(cfg, certReadable) ==
    LET address     == AddressOf(cfg.rpcAddress)
        disableAuth == BoolOr(cfg.disableAuth)
        certPath    == StrOr(cfg.rpcCertPath, "~/.sparkswap/certs/broker-rpc-tls.cert")
        username    == StrOr(cfg.rpcUser, "sparkswap")
        password    == StrOr(cfg.rpcPass, "sparkswap")
        fields      == [address |-> address, disableAuth |-> disableAuth,
                        certPath |-> certPath, username |-> username,
                        password |-> password]
        Thrown(e)   == [state |-> "failed", error |-> e, fields |-> fields,
                        credentials |-> <<>>]
        Built(c)    == [state |-> "constructed", error |-> "", fields |-> fields,
                        credentials |-> c]
    IN  IF disableAuth THEN Built(<<"insecure">>)
        ELSE IF username = "" THEN Thrown("No username is specified for authentication")
        ELSE IF password = "" THEN Thrown("No password is specified for authentication")
        ELSE IF ~certReadable THEN Thrown("ENOENT")
        ELSE Built(<<"ssl", certPath, "basic", username, password>>)

ExampleConfig ==
    [rpcAddress |-> <<>>, disableAuth |-> <<>>, rpcCertPath |-> <<>>,
     rpcUser |-> <<>>, rpcPass |-> <<>>]

\* the client constructed from the default configuration
CtorDone ==
    /\ ctorPc = "constructed"
    /\ config = <<ExampleConfig>>
    /\ client = <<Construct(ExampleConfig, TRUE)>>

----------------------------------------------------------------------------
(* The watches *)

\* no watch started, on the order orderId with limit price limitPrice
WatchIdle ==
    /\ mode = "idle"
    /\ pc = "idle"
    /\ orderId \in OrderIds
    /\ limitPrice \in Prices
    /\ fillAmount = BigZero
    /\ events = <<>>
    /\ polls = 0
    /\ pollLog = <<>>
    /\ outcome = Pending
    /\ stopRequested = FALSE

\* cancelAll not called
CancelIdle ==
    /\ caPc = "idle"
    /\ blockOrders = <<>>
    /\ requests = <<>>
    /\ caOutcome = Pending

\* maxOrderSize not called
MaxIdle ==
    /\ mosPc = "idle"
    /\ mosArgs = <<>>
    /\ mosQuote = <<>>
    /\ capRequests = 0
    /\ mosOutcome = Pending

\* place not called
PlaceIdle ==
    /\ placePc = "idle"
    /\ placeArgs = <<>>
    /\ placeOutcome = Pending

\* no remote call issued; the watched order is open at the broker
RemoteIdle ==
    /\ rpcs = {}
    /\ remote = "ACTIVE"

Init == WatchIdle /\ CancelIdle /\ MaxIdle /\ PlaceIdle /\ CtorDone /\ RemoteIdle

\* order.fillAmount || '0'
NewFillAmount(res) ==
    IF res.fillAmount = <<>> THEN Big(0, <<>>) ELSE res.fillAmount[1]

\* FillEvents with gte in place of gt
FillEventsGte(res, baseline, price) ==
    IF ~BigGt(baseline, NewFillAmount(res))
    THEN <<FillEvent(BigToFixed(BigMinus(NewFillAmount(res), baseline)), price)>>
    ELSE <<>>

\* FillEvents with a fill amount below the baseline reported as an error
FillEventsDropFatal(res, baseline, price) ==
    IF BigGt(NewFillAmount(res), baseline)
    THEN <<FillEvent(BigToFixed(BigMinus(NewFillAmount(res), baseline)), price)>>
    ELSE IF BigGt(baseline, NewFillAmount(res))
    THEN <<ErrorEvent(<<"FillDecreased">>)>>
    ELSE <<>>

\* lines 131-136: the fill notification of one poll, if any
FillEvents(res, baseline, price) ==
    IF BigGt(NewFillAmount(res), baseline)
    THEN <<FillEvent(BigToFixed(BigMinus(NewFillAmount(res), baseline)), price)>>
    ELSE <<>>

\* watchOrderFillAmounts(id): the first getOrder is issued at the call
WatchOrderFillAmounts ==
    /\ mode = "idle"
    /\ mode' = "streaming"
    /\ pc' = "polling"
    /\ polls' = polls + 1
    /\ fillAmount' = BigZero
    /\ UNCHANGED <<orderId, limitPrice, events, pollLog, outcome, stopRequested>>
    /\ UNCHANGED <<cancelVars, maxVars, placeVars, ctorVars, remote>>
    /\ rpcs' = rpcs \cup {Rpc("getBlockOrder", <<DEADLINE_SECONDS>>)}

\* TerminalEvents with FAILED reported like the other terminal statuses
TerminalEventsFailedDone(res, id) ==
    IF res.err # NoError THEN <<ErrorEvent(RemoteError(res.err))>>
    ELSE IF res.status \in TerminalStatuses THEN <<DoneEvent(res.status)>>
    ELSE <<>>

\* TerminalEvents with a failed poll retried at the next interval
TerminalEventsRetry(res, id) ==
    IF res.err # NoError THEN <<>>
    ELSE IF res.status = "FAILED" THEN <<ErrorEvent(OrderFailedError(id))>>
    ELSE IF res.status \in {"COMPLETE", "CANCELLED"} THEN <<DoneEvent(res.status)>>
    ELSE <<>>

\* the notification that ends the streaming watch at one poll, if any
\* (lines 125-127 and 138-148)
TerminalEvents(res, id) ==
    IF res.err # NoError THEN <<ErrorEvent(RemoteError(res.err))>>
    ELSE IF res.status = "FAILED" THEN <<ErrorEvent(OrderFailedError(id))>>
    ELSE IF res.status = "COMPLETE" THEN <<DoneEvent(res.status)>>
    ELSE IF res.status = "CANCELLED" THEN <<DoneEvent(res.status)>>
    ELSE <<>>

\* PollEvents with the status tests ahead of the fill test
PollEventsTerminalFirst(res, baseline, price, id) ==
    TerminalEvents(res, id)
    \o (IF res.err # NoError THEN <<>> ELSE FillEvents(res, baseline, price))

\* the notifications the callback emits for one poll result, in order
\* (lines 125-148)
PollEvents(res, baseline, price, id) ==
    (IF res.err # NoError THEN <<>> ELSE FillEvents(res, baseline, price))
    \o TerminalEvents(res, id)

\* Reschedules with the CANCELLED test left out
ReschedulesOnCancelled(res) ==
    /\ res.err = NoError
    /\ res.status # "FAILED"
    /\ res.status # "COMPLETE"

\* Reschedules with the returns of lines 126-147 left out
ReschedulesAlways(res) == TRUE

\* whether the callback reaches setTimeout (line 150): no return before it
Reschedules(res) ==
    /\ res.err = NoError
    /\ res.status # "FAILED"
    /\ res.status # "COMPLETE"
    /\ res.status # "CANCELLED"

\* the getOrder callback of the streaming watch called with res
\* (lines 124-153)
StreamingPoll(res) ==
    /\ mode = "streaming"
    /\ pc = "polling"
    /\ pollLog' = Append(pollLog, res)
    /\ events' = events \o PollEvents(res, fillAmount, limitPrice, orderId)
    /\ IF Reschedules(res)
       THEN \* setTimeout(..., interval) with newFillAmount captured
            /\ pc' = "waiting"
            /\ fillAmount' = NewFillAmount(res)
       ELSE /\ pc' = "ended"
            /\ UNCHANGED fillAmount
    /\ UNCHANGED <<mode, orderId, limitPrice, polls, outcome, stopRequested>>
    /\ UNCHANGED <<cancelVars, maxVars, placeVars, ctorVars, remote>>
    /\ UNCHANGED rpcs

\* the getOrder callback of the streaming watch
GetOrderCallback == \E res \in PollResults : StreamingPoll(res)

\* the setTimeout callback (lines 150-152): the next getOrder is issued
TimerFires ==
    /\ mode = "streaming"
    /\ pc = "waiting"
    /\ polls < MaxPolls
    /\ pc' = "polling"
    /\ polls' = polls + 1
    /\ UNCHANGED <<mode, orderId, limitPrice, fillAmount, events, pollLog,
                   outcome, stopRequested>>
    /\ UNCHANGED <<cancelVars, maxVars, placeVars, ctorVars, remote>>
    /\ rpcs' = rpcs \cup {Rpc("getBlockOrder", <<DEADLINE_SECONDS>>)}

\* watchOrder(id): the first getBlockOrder is issued at the call
WatchOrder ==
    /\ mode = "idle"
    /\ mode' = "blocking"
    /\ pc' = "polling"
    /\ polls' = polls + 1
    /\ UNCHANGED <<orderId, limitPrice, fillAmount, events, pollLog, outcome,
                   stopRequested>>
    /\ UNCHANGED <<cancelVars, maxVars, placeVars, ctorVars, remote>>
    /\ rpcs' = rpcs \cup {Rpc("getBlockOrder", <<DEADLINE_SECONDS>>)}

\* WatchOrderStep with the CANCELLED test left out
WatchOrderStepNoCancelled(res) ==
    IF res.err # NoError THEN Rejected(RemoteError(res.err))
    ELSE IF res.status = "FAILED" THEN Resolved("FAILED")
    ELSE IF res.status = "COMPLETE" THEN Resolved("COMPLETE")
    ELSE Pending

\* what watchOrder does with a poll result (lines 161-175): settle the
\* promise, or "again" for the recursive call
WatchOrderStep(res) ==
    IF res.err # NoError THEN Rejected(RemoteError(res.err))
    ELSE IF res.status = "FAILED" THEN Resolved("FAILED")
    ELSE IF res.status = "COMPLETE" THEN Resolved("COMPLETE")
    ELSE IF res.status = "CANCELLED" THEN Resolved("CANCELLED")
    ELSE Pending

\* watchOrder resumes after its await with res
BlockingPoll(res) ==
    /\ mode = "blocking"
    /\ pc = "polling"
    /\ pollLog' = Append(pollLog, res)
    /\ outcome' = WatchOrderStep(res)
    /\ IF outcome' = Pending
       THEN \* return this.watchOrder(id, interval): the next request at once
            /\ polls < MaxPolls
            /\ polls' = polls + 1
            /\ pc' = "polling"
       ELSE /\ pc' = "ended"
            /\ UNCHANGED polls
    /\ UNCHANGED <<mode, orderId, limitPrice, fillAmount, events, stopRequested>>
    /\ UNCHANGED <<cancelVars, maxVars, placeVars, ctorVars, remote>>
    /\ rpcs' = IF outcome' = Pending
               THEN rpcs \cup {Rpc("getBlockOrder", <<DEADLINE_SECONDS>>)}
               ELSE rpcs

\* watchOrder resumes after its await
WatchOrderResumes == \E res \in PollResults : BlockingPoll(res)

\* the owner of a running watch asks it to stop; it holds only the emitter
\* (line 155) or the promise, and the watch reads neither
OwnerStop ==
    /\ mode # "idle"
    /\ pc \in {"polling", "waiting"}
    /\ ~stopRequested
    /\ stopRequested' = TRUE
    /\ UNCHANGED <<mode, pc, orderId, limitPrice, fillAmount, events, polls,
                   pollLog, outcome>>
    /\ UNCHANGED <<cancelVars, maxVars, placeVars, ctorVars, remote>>
    /\ UNCHANGED rpcs

Next ==
    \/ WatchOrderFillAmounts
    \/ GetOrderCallback
    \/ TimerFires
    \/ WatchOrder
    \/ WatchOrderResumes
    \/ OwnerStop

Spec == Init /\ [][Next]_vars

----------------------------------------------------------------------------
(* cancelAll *)

\* the lists getBlockOrders can answer with; the i-th order has id i
OrderLists ==
    UNION { { [i \in 1..n |-> [blockOrderId |-> i, status |-> f[i]]] :
                f \in [1..n -> Statuses] } : n \in 0..MaxOrders }

IsActive(blockOrder) == blockOrder.status = "ACTIVE"

\* ActiveBlockOrders without the filter
ActiveBlockOrdersAll(list) == list

\* line 59
ActiveBlockOrders(list) == SelectSeq(list, IsActive)

\* the response of cancelBlockOrder for one order
Ack(id) == <<"cancelled", id>>

Outstanding(id) == [blockOrderId |-> id, state |-> "outstanding", err |-> NoError]

\* Promise.all that waits for every request and resolves with those that succeeded
PromiseAllSettled(current, reqs) ==
    IF current # Pending THEN current
    ELSE IF \E k \in 1..Len(reqs) : reqs[k].state = "outstanding" THEN Pending
    ELSE Resolved(SelectSeq([k \in 1..Len(reqs) |->
                                IF reqs[k].state = "ok" THEN Ack(reqs[k].blockOrderId)
                                ELSE <<>>],
                            LAMBDA x : x # <<>>))

\* Promise.all (line 61) over the requests reqs, its promise being current
\* before the last response: rejected by the first failure, resolved with
\* every response once all have succeeded
PromiseAll(current, reqs) ==
    IF current # Pending THEN current
    ELSE IF \E k \in 1..Len(reqs) : reqs[k].state = "failed"
    THEN Rejected(RemoteError(
            reqs[CHOOSE k \in 1..Len(reqs) : reqs[k].state = "failed"].err))
    ELSE IF \A k \in 1..Len(reqs) : reqs[k].state = "ok"
    THEN Resolved([k \in 1..Len(reqs) |-> Ack(reqs[k].blockOrderId)])
    ELSE Pending

\* cancelAll(market): getBlockOrders is issued (lines 56-57)
CancelAll ==
    /\ caPc = "idle"
    /\ caPc' = "listing"
    /\ UNCHANGED <<blockOrders, requests, caOutcome>>
    /\ UNCHANGED <<watchVars, maxVars, placeVars, ctorVars, remote>>
    /\ rpcs' = rpcs \cup {Rpc("getBlockOrders", <<DEADLINE_SECONDS>>)}

\* getBlockOrders fails: the await throws, cancelAll's promise is rejected
GetBlockOrdersFails ==
    /\ caPc = "listing"
    /\ \E e \in RemoteErrors : caOutcome' = Rejected(RemoteError(e))
    /\ caPc' = "returned"
    /\ UNCHANGED <<blockOrders, requests>>
    /\ UNCHANGED <<watchVars, maxVars, placeVars, ctorVars, remote>>
    /\ UNCHANGED rpcs

\* getBlockOrders answers: one cancelBlockOrder per ACTIVE order is issued
\* and cancelAll returns the Promise.all of them (lines 59-61)
GetBlockOrdersResponds ==
    /\ caPc = "listing"
    /\ \E list \in OrderLists :
        LET activeBlockOrders == ActiveBlockOrders(list)
        IN  /\ blockOrders' = list
            /\ requests' = [k \in 1..Len(activeBlockOrders) |->
                               Outstanding(activeBlockOrders[k].blockOrderId)]
    /\ caOutcome' = PromiseAll(caOutcome, requests')
    /\ caPc' = IF caOutcome' = Pending THEN "cancelling" ELSE "returned"
    /\ UNCHANGED <<watchVars, maxVars, placeVars, ctorVars, remote>>
    /\ rpcs' = IF requests' # <<>>
               THEN rpcs \cup {Rpc("cancelBlockOrder", <<DEADLINE_SECONDS>>)}
               ELSE rpcs

\* one cancelBlockOrder request is answered, with an acknowledgement or an error
CancelBlockOrderResponds ==
    /\ caPc \in {"cancelling", "returned"}
    /\ \E k \in 1..Len(requests) :
        /\ requests[k].state = "outstanding"
        /\ \/ requests' = [requests EXCEPT ![k].state = "ok"]
           \/ \E e \in RemoteErrors :
                requests' = [requests EXCEPT ![k].state = "failed", ![k].err = e]
    /\ caOutcome' = PromiseAll(caOutcome, requests')
    /\ caPc' = IF caOutcome' = Pending THEN caPc ELSE "returned"
    /\ UNCHANGED blockOrders
    /\ UNCHANGED <<watchVars, maxVars, placeVars, ctorVars, remote>>
    /\ UNCHANGED rpcs

\* the client with no watch running
InitNoWatch ==
    /\ Init
    /\ orderId = "A1"
    /\ limitPrice = Big(10000, <<>>)

NextCancel ==
    \/ CancelAll
    \/ GetBlockOrdersFails
    \/ GetBlockOrdersResponds
    \/ CancelBlockOrderResponds

SpecCancel == InitNoWatch /\ [][NextCancel]_vars

----------------------------------------------------------------------------
(* maxOrderSize *)

Sides == {"BID", "ASK", "SELL", "bid"}

OrderPrices ==
    {Big(k, <<>>) : k \in 1..MaxPrice} \cup {Big(10000, <<>>), Big(0, <<5>>)}

BaseCapacities ==
    {Big(k, <<>>) : k \in 0..MaxBase}
    \cup {Big(2, <<0>>), Big(0, <<0, 0, 0, 0, 0, 0, 0, 3>>)}

CounterCapacities ==
    {Big(k, <<>>) : k \in 0..MaxCounter} \cup {Big(10000, <<>>)}

\* the answers of getTradingCapacities
Quotes ==
    [baseSend : BaseCapacities, baseReceive : BaseCapacities,
     counterSend : CounterCapacities, counterReceive : CounterCapacities]

\* OrderSize with the capacities of the two sides exchanged
OrderSizeSwapped(side, price, quote) ==
    LET receiveCapacity == IF side = "BID"
                           THEN BigDiv(quote.counterReceive, price)
                           ELSE quote.baseReceive
        sendCapacity    == IF side = "BID"
                           THEN quote.baseSend
                           ELSE BigDiv(quote.counterSend, price)
        send == BigTimesBuffer(sendCapacity)
        recv == BigTimesBuffer(receiveCapacity)
    IN  IF BigGt(recv, send) THEN BigToFixed(send) ELSE BigToFixed(recv)

\* lines 95-115: the size maxOrderSize returns for a quote
OrderSize(side, price, quote) ==
    LET receiveCapacity == IF side = "BID"
                           THEN quote.baseReceive
                           ELSE BigDiv(quote.counterReceive, price)
        sendCapacity    == IF side = "BID"
                           THEN BigDiv(quote.counterSend, price)
                           ELSE quote.baseSend
        send == BigTimesBuffer(sendCapacity)
        recv == BigTimesBuffer(receiveCapacity)
    IN  IF BigGt(recv, send) THEN BigToFixed(send) ELSE BigToFixed(recv)

\* ValidSide with the test left out
ValidSideAny(side) == TRUE

\* ['BID', 'ASK'].includes(side) (line 83)
ValidSide(side) == side \in {"BID", "ASK"}

\* new Error(`Invalid side: ${side}`)
InvalidSideError(side) == <<"InvalidSide", side>>

\* maxOrderSize(market, side, price) up to its await (lines 80-93)
MaxOrderSize ==
    /\ mosPc = "idle"
    /\ \E side \in Sides, price \in OrderPrices :
        /\ mosArgs' = <<[side |-> side, price |-> price]>>
        /\ IF ~ValidSide(side)
           THEN /\ mosOutcome' = Rejected(InvalidSideError(side))
                /\ mosPc' = "returned"
                /\ UNCHANGED capRequests
           ELSE /\ capRequests' = capRequests + 1
                /\ mosPc' = "fetching"
                /\ UNCHANGED mosOutcome
    /\ UNCHANGED mosQuote
    /\ UNCHANGED <<watchVars, cancelVars, placeVars, ctorVars, remote>>
    /\ rpcs' = IF mosPc' = "fetching"
               THEN rpcs \cup {Rpc("getTradingCapacities", <<DEADLINE_SECONDS>>)}
               ELSE rpcs

\* getTradingCapacities fails: the await throws
GetTradingCapacitiesFails ==
    /\ mosPc = "fetching"
    /\ \E e \in RemoteErrors : mosOutcome' = Rejected(RemoteError(e))
    /\ mosPc' = "returned"
    /\ UNCHANGED <<mosArgs, mosQuote, capRequests>>
    /\ UNCHANGED <<watchVars, cancelVars, placeVars, ctorVars, remote>>
    /\ UNCHANGED rpcs

\* getTradingCapacities answers: the size is computed and returned
GetTradingCapacitiesResponds ==
    /\ mosPc = "fetching"
    /\ \E quote \in Quotes :
        /\ mosQuote' = <<quote>>
        /\ mosOutcome' = Resolved(OrderSize(mosArgs[1].side, mosArgs[1].price, quote))
    /\ mosPc' = "returned"
    /\ UNCHANGED <<mosArgs, capRequests>>
    /\ UNCHANGED <<watchVars, cancelVars, placeVars, ctorVars, remote>>
    /\ UNCHANGED rpcs

NextMax ==
    \/ MaxOrderSize
    \/ GetTradingCapacitiesFails
    \/ GetTradingCapacitiesResponds

SpecMax == InitNoWatch /\ [][NextMax]_vars

----------------------------------------------------------------------------
(* place *)

PlaceAmounts == {Big(1, <<>>), Big(0, <<5>>), Big(0, <<0, 0, 0, 0, 0, 0, 0, 1>>)}

\* the errors a call can end with: the deadline can only pass when one was given
RpcErrors(call) ==
    IF call.deadline = <<>> THEN RemoteErrors \ {"DEADLINE_EXCEEDED"} ELSE RemoteErrors

\* the createBlockOrder call of place (lines 67-73): no options argument
CreateBlockOrderCall == Rpc("createBlockOrder", <<>>)

\* place(market, side, price, amount) up to its await (lines 64-73)
Place ==
    /\ placePc = "idle"
    /\ \E side \in Sides, price \in OrderPrices, amount \in PlaceAmounts :
        placeArgs' = <<[side |-> side, amount |-> amount, limitPrice |-> price,
                        timeInForce |-> "GTC"]>>
    /\ placePc' = "creating"
    /\ rpcs' = rpcs \cup {CreateBlockOrderCall}
    /\ UNCHANGED placeOutcome
    /\ UNCHANGED <<watchVars, cancelVars, maxVars, ctorVars, remote>>

\* createBlockOrder answers: place returns the blockOrderId (line 75)
CreateBlockOrderResponds ==
    /\ placePc = "creating"
    /\ \E id \in OrderIds : placeOutcome' = Resolved(id)
    /\ placePc' = "returned"
    /\ UNCHANGED <<placeArgs, rpcs>>
    /\ UNCHANGED <<watchVars, cancelVars, maxVars, ctorVars, remote>>

\* createBlockOrder fails: the await throws
CreateBlockOrderFails ==
    /\ placePc = "creating"
    /\ \E e \in RpcErrors(CreateBlockOrderCall) :
        placeOutcome' = Rejected(RemoteError(e))
    /\ placePc' = "returned"
    /\ UNCHANGED <<placeArgs, rpcs>>
    /\ UNCHANGED <<watchVars, cancelVars, maxVars, ctorVars, remote>>

NextPlace ==
    \/ Place
    \/ CreateBlockOrderResponds
    \/ CreateBlockOrderFails

SpecPlace == InitNoWatch /\ [][NextPlace]_vars

----------------------------------------------------------------------------
(* Construction *)

\* before new SparkswapClient(configPath) (line 179)
InitNew ==
    /\ WatchIdle /\ CancelIdle /\ MaxIdle /\ PlaceIdle /\ RemoteIdle
    /\ orderId = "A1"
    /\ limitPrice = Big(10000, <<>>)
    /\ ctorPc = "new"
    /\ config = <<>>
    /\ client = <<>>

\* new SparkswapClient(configPath)
NewClient ==
    /\ ctorPc = "new"
    /\ \E cfg \in Configs, certReadable \in BOOLEAN :
        /\ config' = <<cfg>>
        /\ client' = <<Construct(cfg, certReadable)>>
        /\ ctorPc' = client'[1].state
    /\ UNCHANGED <<watchVars, cancelVars, maxVars, placeVars, rpcs, remote>>

NextNew == NewClient

SpecNew == InitNew /\ [][NextNew]_vars

----------------------------------------------------------------------------
(* A watch against the broker's order *)

\* the fill amounts the broker reports in this specification
LiveFillAmounts == {<<>>, <<Big(0, <<3>>)>>}

\* the responses the broker can give now: the order's current status.  The
\* order leaves the non-terminal statuses before MaxPolls requests were
\* answered.
AnsweredPolls ==
    {res \in PollResults :
        /\ res.err = NoError
        /\ res.status = remote
        /\ res.fillAmount \in LiveFillAmounts
        /\ (res.status \in TerminalStatuses \/ polls < MaxPolls)}

\* the failures a getBlockOrder call can end with
FailedPolls == {res \in PollResults : res.err # NoError}

\* the broker answers the getOrder of the streaming watch
GetOrderAnswered == \E res \in AnsweredPolls : StreamingPoll(res)

\* the getOrder of the streaming watch fails
GetOrderFailed == \E res \in FailedPolls : StreamingPoll(res)

\* the broker answers the getBlockOrder of watchOrder
GetBlockOrderAnswered == \E res \in AnsweredPolls : BlockingPoll(res)

\* the getBlockOrder of watchOrder fails
GetBlockOrderFailed == \E res \in FailedPolls : BlockingPoll(res)

\* the order changes status at the broker; a terminal status is final
RemoteChanges ==
    /\ remote \notin TerminalStatuses
    /\ remote' \in Statuses \ {remote}
    /\ UNCHANGED <<watchVars, cancelVars, maxVars, placeVars, ctorVars, rpcs>>

NextLive ==
    \/ WatchOrderFillAmounts
    \/ GetOrderAnswered
    \/ GetOrderFailed
    \/ TimerFires
    \/ WatchOrder
    \/ GetBlockOrderAnswered
    \/ GetBlockOrderFailed
    \/ RemoteChanges

\* the event loop runs a due timer and a callback whose response arrived, and
\* every request is answered unless it fails
SpecLive ==
    /\ InitNoWatch
    /\ [][NextLive]_vars
    /\ WF_vars(TimerFires)
    /\ WF_vars(GetOrderAnswered)
    /\ WF_vars(GetBlockOrderAnswered)

----------------------------------------------------------------------------
(* Properties of the watches *)

Last(s) == s[Len(s)]

IsFill(e) == e.type = "fill"

IsTerminal(e) == e.type \in {"done", "error"}

\* a decimal string of at most 8 decimals as a count of 10^-8 units
Units(a) == a.ip * 100000000 + FracInt(a.fd, 8)

PollUnits(res) == IF res.fillAmount = <<>> THEN 0 ELSE Units(res.fillAmount[1])

\* the fill notifications the polls log[i..] call for, the previous poll's
\* fill amount being base
RECURSIVE ExpectedFills(_, _, _)
ExpectedFills(log, i, base) ==
    IF i > Len(log) \/ log[i].err # NoError THEN <<>>
    ELSE (IF PollUnits(log[i]) > base
          THEN <<FillEvent(PollUnits(log[i]) - base, limitPrice)>>
          ELSE <<>>)
         \o ExpectedFills(log, i + 1, PollUnits(log[i]))

ActivePoll(f) == [err |-> NoError, status |-> "ACTIVE", fillAmount |-> f]

ExamplePolls ==
    << ActivePoll(<<Big(0, <<>>)>>), ActivePoll(<<Big(0, <<3>>)>>),
       ActivePoll(<<Big(0, <<3>>)>>), ActivePoll(<<Big(0, <<7>>)>>) >>

\* C1: the streaming watch has emitted a fill notification for exactly the
\* polls whose fill amount is strictly greater than the previous poll's ("0"
\* before the first, an absent amount counting as "0"), in order, each with
\* amount new minus previous and the order's limit price; polls 0, 0.3, 0.3,
\* 0.7 give exactly the fills 0.3 and 0.4.
C1_FillsFollowPolls ==
    mode = "streaming" =>
        /\ SelectSeq(events, IsFill) = ExpectedFills(pollLog, 1, 0)
        /\ pollLog = ExamplePolls =>
              events = <<FillEvent(30000000, limitPrice),
                         FillEvent(40000000, limitPrice)>>

C1_Witness ==
    /\ mode = "streaming"
    /\ pollLog = ExamplePolls
    /\ Len(SelectSeq(events, IsFill)) = 2

\* C2: a poll that returned COMPLETE or CANCELLED has ended the watch with
\* that status (the streaming watch's only terminal notification is 'done'
\* with it, watchOrder's promise is resolved with it) and every request the
\* watch issued has been answered: none was issued after that poll.
C2_TerminalStatusEndsWatch ==
    (/\ pollLog # <<>>
     /\ Last(pollLog).err = NoError
     /\ Last(pollLog).status \in {"COMPLETE", "CANCELLED"}) =>
        /\ pc = "ended"
        /\ polls = Len(pollLog)
        /\ mode = "streaming" =>
              /\ events # <<>>
              /\ Last(events) = DoneEvent(Last(pollLog).status)
              /\ Len(SelectSeq(events, IsTerminal)) = 1
        /\ mode = "blocking" => outcome = Resolved(Last(pollLog).status)

C2_Witness ==
    /\ mode = "blocking"
    /\ Len(pollLog) = 3
    /\ Last(pollLog).status = "CANCELLED"
    /\ outcome = Resolved("CANCELLED")

\* C3: when a poll of watchOrder returned FAILED, the promise is rejected
\* with the OrderFailed error of the order and no status value is returned.
C3_BlockingFailedRejects ==
    (/\ mode = "blocking"
     /\ pollLog # <<>>
     /\ Last(pollLog).err = NoError
     /\ Last(pollLog).status = "FAILED") =>
        outcome = Rejected(OrderFailedError(orderId))

\* C4: when a poll of the streaming watch returned FAILED, the watch has
\* ended with an 'error' notification naming the order id, has emitted no
\* 'done' notification, and has issued no request after that poll.
C4_StreamingFailedIsError ==
    (/\ mode = "streaming"
     /\ pollLog # <<>>
     /\ Last(pollLog).err = NoError
     /\ Last(pollLog).status = "FAILED") =>
        /\ pc = "ended"
        /\ polls = Len(pollLog)
        /\ events # <<>>
        /\ Last(events) = ErrorEvent(OrderFailedError(orderId))
        /\ \A i \in 1..Len(events) : events[i].type # "done"

C4_Witness ==
    /\ mode = "streaming"
    /\ Len(pollLog) = 2
    /\ Last(pollLog).err = NoError
    /\ Last(pollLog).status = "FAILED"
    /\ orderId = "B2"
    /\ Last(events) = ErrorEvent(<<"OrderFailed", "B2">>)

PollFailed == pollLog # <<>> /\ Last(pollLog).err # NoError

\* C5: a poll whose getOrder call failed ends the watch with that same error
\* (the streaming watch emits exactly one notification for the poll, 'error'
\* with the remote error; watchOrder's promise is rejected with it) and no
\* request is issued after it.
C5_RemoteErrorSurfaces ==
    /\ [](PollFailed =>
            /\ pc = "ended"
            /\ polls = Len(pollLog)
            /\ mode = "blocking" =>
                  outcome = Rejected(RemoteError(Last(pollLog).err))
            /\ mode = "streaming" =>
                  /\ events # <<>>
                  /\ Last(events) = ErrorEvent(RemoteError(Last(pollLog).err)))
    /\ [][(mode = "streaming" /\ pollLog' # pollLog /\ Last(pollLog').err # NoError)
            => events' = Append(events, ErrorEvent(RemoteError(Last(pollLog').err)))]_vars

C5_Witness ==
    /\ mode = "streaming"
    /\ Len(pollLog) = 3
    /\ Last(pollLog).err = "DEADLINE_EXCEEDED"
    /\ Len(events) = 2
    /\ Last(events) = ErrorEvent(<<"Remote", "DEADLINE_EXCEEDED">>)

\* C6: once the owner of a running watch has asked it to stop, the watch
\* issues no further getOrder request.
C6_StopHaltsPolling == [][stopRequested => polls' = polls]_vars

----------------------------------------------------------------------------
(* Properties of cancelAll *)

RequestsFor(id) == {k \in 1..Len(requests) : requests[k].blockOrderId = id}

\* C7: cancelAll has issued exactly one cancelBlockOrder request for each
\* ACTIVE order of the list it got and none for any other order; when the
\* listing failed it has issued none.
C7_CancelsExactlyActive ==
    /\ \A i \in 1..Len(blockOrders) :
          Cardinality(RequestsFor(blockOrders[i].blockOrderId))
             = IF blockOrders[i].status = "ACTIVE" THEN 1 ELSE 0
    /\ \A k \in 1..Len(requests) :
          \E i \in 1..Len(blockOrders) :
             blockOrders[i].blockOrderId = requests[k].blockOrderId
    /\ (caPc = "returned" /\ blockOrders = <<>>) => requests = <<>>

C7_Witness ==
    /\ Len(blockOrders) = 3
    /\ blockOrders[1].status = "ACTIVE"
    /\ blockOrders[2].status = "COMPLETE"
    /\ blockOrders[3].status = "ACTIVE"
    /\ Len(requests) = 2
    /\ requests[1].blockOrderId = 1
    /\ requests[2].blockOrderId = 3

\* C8: when cancelAll has returned (its promise is settled), none of the
\* cancelBlockOrder requests it issued is outstanding.
C8_ReturnsAfterAllSettled ==
    caOutcome # Pending =>
        \A k \in 1..Len(requests) : requests[k].state # "outstanding"

\* C9: cancelAll's promise is resolved exactly when the listing succeeded
\* and every cancellation succeeded, and then with one outcome per ACTIVE
\* order; once a cancellation has failed the promise is rejected with an
\* error and carries no list of outcomes.
C9_AllOrNothing ==
    /\ caOutcome.state = "resolved" =>
          /\ \A k \in 1..Len(requests) : requests[k].state = "ok"
          /\ Len(caOutcome.value[1]) = Len(SelectSeq(blockOrders, IsActive))
          /\ \A k \in 1..Len(requests) :
                caOutcome.value[1][k] = Ack(requests[k].blockOrderId)
    /\ (\E k \in 1..Len(requests) : requests[k].state = "failed") =>
          /\ caOutcome.state = "rejected"
          /\ caOutcome.value[1] = "Remote"
    /\ (/\ caPc \in {"cancelling", "returned"}
        /\ caOutcome.state # "rejected"
        /\ \A k \in 1..Len(requests) : requests[k].state = "ok") =>
          caOutcome.state = "resolved"

C9_Witness ==
    /\ Len(blockOrders) = 3
    /\ Len(requests) = 2
    /\ caOutcome = Resolved(<<Ack(requests[1].blockOrderId),
                              Ack(requests[2].blockOrderId)>>)

----------------------------------------------------------------------------
(* Properties of maxOrderSize *)

\* above every size the base capacities allow
Saturated == MaxBase + 1

\* floor(n * 10^k / d) and whether it is exact, saturating at Saturated
RECURSIVE QuotFloor(_, _, _)
QuotFloor(n, d, k) ==
    IF n \div d >= Saturated THEN [q |-> Saturated * Pow10(k), r |-> 0]
    ELSE IF k = 0 THEN [q |-> n \div d, r |-> n % d]
    ELSE LET p == QuotFloor(n, d, k - 1)
         IN  [q |-> p.q * 10 + (p.r * 10) \div d, r |-> (p.r * 10) % d]

\* c / price * 0.95 in 10^-8 units, as [lo, hi]: the exact value rounded
\* down and rounded up
DividedBounds(c, price) ==
    LET n == Max(Len(c.fd), Len(price.fd))
        f == QuotFloor(95 * Scaled(c, n), 100 * Scaled(price, n), 8)
    IN  [lo |-> f.q, hi |-> f.q + (IF f.r = 0 THEN 0 ELSE 1)]

\* c * 0.95 in 10^-8 units, as [lo, hi]
DirectBounds(c) ==
    LET u == Units(c)
        t == 95 * (u % 100)
    IN  [lo |-> 95 * (u \div 100) + t \div 100,
         hi |-> 95 * (u \div 100) + t \div 100 + (IF t % 100 = 0 THEN 0 ELSE 1)]

Min(a, b) == IF a < b THEN a ELSE b

\* min(sendCapacity, receiveCapacity) * 0.95 as [lo, hi], with the
\* capacities of section 4.1
ExactSize(side, price, quote) ==
    LET recv == IF side = "BID" THEN DirectBounds(quote.baseReceive)
                ELSE DividedBounds(quote.counterReceive, price)
        send == IF side = "BID" THEN DividedBounds(quote.counterSend, price)
                ELSE DirectBounds(quote.baseSend)
    IN  [lo |-> Min(send.lo, recv.lo), hi |-> Min(send.hi, recv.hi)]

ExampleQuote(q) == q.baseReceive = Big(2, <<0>>) /\ q.counterSend = Big(10000, <<>>)

\* C10: for BID and ASK, the size maxOrderSize returns is
\* min(sendCapacity, receiveCapacity) * 0.95 to 8 decimal places (the exact
\* value when it has at most 8 decimals, else one of its two 8-decimal
\* neighbours), with BID: receive = base available-receive, send = counter
\* available-send / price, and ASK: receive = counter available-receive /
\* price, send = base available-send; BID at price 10000 with base
\* available-receive 2.0 and counter available-send 10000 gives 0.95000000.
C10_SizeIsHaircutMinimum ==
    mosOutcome.state = "resolved" =>
        LET side  == mosArgs[1].side
            price == mosArgs[1].price
            exact == ExactSize(side, price, mosQuote[1])
            size  == mosOutcome.value[1]
        IN  /\ side \in {"BID", "ASK"}
            /\ exact.lo <= size
            /\ size <= exact.hi
            /\ (side = "BID" /\ price = Big(10000, <<>>) /\ ExampleQuote(mosQuote[1]))
                  => size = 95000000

C10_Witness ==
    /\ mosOutcome = Resolved(95000000)
    /\ mosArgs[1].side = "BID"
    /\ mosArgs[1].price = Big(10000, <<>>)
    /\ ExampleQuote(mosQuote[1])

\* C11: the size maxOrderSize returns is the exact value
\* min(sendCapacity, receiveCapacity) * 0.95 truncated to 8 decimal places:
\* never above the exact value and less than 10^-8 below it.
C11_SizeIsTruncated ==
    mosOutcome.state = "resolved" =>
        mosOutcome.value[1]
            = ExactSize(mosArgs[1].side, mosArgs[1].price, mosQuote[1]).lo

\* C12: a call of maxOrderSize with a side other than BID and ASK has failed
\* with the invalid-side error and has issued no getTradingCapacities
\* request.
C12_InvalidSideRejected ==
    (mosArgs # <<>> /\ mosArgs[1].side \notin {"BID", "ASK"}) =>
        /\ mosOutcome = Rejected(InvalidSideError(mosArgs[1].side))
        /\ mosPc = "returned"
        /\ capRequests = 0
        /\ mosQuote = <<>>

C12_Witness ==
    /\ mosArgs # <<>>
    /\ mosArgs[1].side = "bid"
    /\ mosOutcome = Rejected(<<"InvalidSide", "bid">>)
    /\ capRequests = 0

----------------------------------------------------------------------------
(* Further properties of the watches *)

Terminals == SelectSeq(events, IsTerminal)

\* C15: the streaming watch emits at most one 'done' or 'error'
\* notification; once it has, that notification stays the last one, no timer
\* is pending and no getOrder request is outstanding or issued.
C15_OneTerminalNotification ==
    /\ [](mode = "streaming" =>
            /\ Len(Terminals) <= 1
            /\ Len(Terminals) = 1 =>
                  /\ IsTerminal(Last(events))
                  /\ pc = "ended"
                  /\ polls = Len(pollLog))
    /\ [][(mode = "streaming" /\ Len(Terminals) = 1) =>
            (events' = events /\ polls' = polls /\ pc' = pc)]_vars

C15_Witness ==
    /\ mode = "streaming"
    /\ Len(pollLog) = 3
    /\ Len(events) = 3
    /\ events[1].type = "fill"
    /\ events[2].type = "fill"
    /\ events[3].type = "done"
    /\ pc = "ended"

\* the last poll carried a terminal status and a fill amount above the
\* baseline it was compared with
FinalFill ==
    /\ mode = "streaming"
    /\ pc = "ended"
    /\ Last(pollLog).err = NoError
    /\ PollUnits(Last(pollLog)) > Units(fillAmount)

\* C17: when the poll that ended the streaming watch also raised the fill
\* amount above the baseline, the last two notifications are the fill of
\* that poll and then the terminal 'done' or 'error'.
C17_FinalFillBeforeTerminal ==
    FinalFill =>
        /\ Len(events) >= 2
        /\ events[Len(events) - 1]
              = FillEvent(PollUnits(Last(pollLog)) - Units(fillAmount), limitPrice)
        /\ IsTerminal(Last(events))
        /\ Len(SelectSeq(events, IsFill)) = Len(events) - 1

C17_Witness ==
    /\ FinalFill
    /\ Len(pollLog) = 2
    /\ Last(pollLog).status = "FAILED"
    /\ Len(events) = 3
    /\ events[2] = FillEvent(40000000, limitPrice)
    /\ events[3].type = "error"

\* this step delivers a poll with a fill amount below the baseline
DropStep ==
    /\ mode = "streaming"
    /\ pollLog' # pollLog
    /\ Last(pollLog').err = NoError
    /\ PollUnits(Last(pollLog')) < Units(fillAmount)

\* C18: a poll of the streaming watch whose fill amount is below the
\* baseline emits no 'fill' and no 'error' of its own: with a non-terminal
\* status nothing is emitted and the next poll is scheduled, with a terminal
\* status only that status's notification is emitted.
C18_FillDropIsNotFatal ==
    [][DropStep =>
         /\ events' = events \o TerminalEvents(Last(pollLog'), orderId)
         /\ Last(pollLog').status \notin TerminalStatuses =>
               (events' = events /\ pc' = "waiting")]_vars

C18_Witness ==
    /\ mode = "streaming"
    /\ pc = "waiting"
    /\ Len(pollLog) = 2
    /\ PollUnits(pollLog[1]) = 70000000
    /\ PollUnits(pollLog[2]) = 30000000
    /\ Len(events) = 1

RECURSIVE SumAmounts(_)
SumAmounts(evs) ==
    IF evs = <<>> THEN 0 ELSE Head(evs).amount + SumAmounts(Tail(evs))

RECURSIVE MaxFill(_)
MaxFill(log) ==
    IF log = <<>> THEN 0
    ELSE Max(IF Head(log).err = NoError THEN PollUnits(Head(log)) ELSE 0,
             MaxFill(Tail(log)))

\* C19: the amounts of the fill notifications emitted so far sum to no more
\* than the largest fill amount any poll has reported so far.
C19_FillsNeverExceedLargest ==
    mode = "streaming" => SumAmounts(SelectSeq(events, IsFill)) <= MaxFill(pollLog)

\* C16: the step that delivers a poll with a non-terminal status does not
\* itself issue the next getOrder request: the next request is issued by a
\* later step, after the interval.
C16_NoBackToBackPolls ==
    [][(/\ pollLog' # pollLog
        /\ Last(pollLog').err = NoError
        /\ Last(pollLog').status \notin TerminalStatuses) => polls' = polls]_vars

----------------------------------------------------------------------------
(* Properties of place and of the constructor *)

\* C13: every remote call the client has issued carries the 5-second
\* deadline.
C13_EveryCallHasDeadline ==
    \A call \in rpcs : call.deadline = <<DEADLINE_SECONDS>>

Missing(field) == field = <<>> \/ field = <<"">>

\* C14: a client constructed with authentication enabled from a
\* configuration without a username or without a password has failed at
\* construction, with no credentials built and no remote call made.
C14_MissingCredentialsFail ==
    (/\ ctorPc # "new"
     /\ ~BoolOr(config[1].disableAuth)
     /\ (Missing(config[1].rpcUser) \/ Missing(config[1].rpcPass))) =>
        /\ ctorPc = "failed"
        /\ client[1].credentials = <<>>
        /\ rpcs = {}

----------------------------------------------------------------------------
(* Termination of a watch *)

\* C20: once the order is in a terminal status at the broker (which it
\* keeps), a started watch eventually terminates; and a watch that has
\* terminated had a failed poll or was answered a terminal status: it never
\* terminates while the order is non-terminal and no poll failed.
C20_WatchTerminatesWithOrder ==
    /\ (mode # "idle" /\ remote \in TerminalStatuses) ~> (pc = "ended")
    /\ [](pc = "ended" =>
            \/ PollFailed
            \/ /\ remote \in TerminalStatuses
               /\ Last(pollLog).status = remote)
    /\ []((mode # "idle" /\ remote \notin TerminalStatuses /\ ~PollFailed) =>
            pc # "ended")

C20_Witness ==
    /\ mode = "streaming"
    /\ pc = "ended"
    /\ Len(pollLog) = 3
    /\ pollLog[1].status = "PENDING"
    /\ pollLog[2].status = "ACTIVE"
    /\ pollLog[3].status = "CANCELLED"
    /\ remote = "CANCELLED"
    /\ ~PollFailed

====
